---- MODULE Spec2Model ----
(***************************************************************************)
(* The editing session of the scene editor (InstancesFullEditor): the live *)
(* instances container, the instances selection, the undo/redo history and *)
(* the handlers that edit them.                                            *)
(*                                                                         *)
(* InstancesFullEditor/index.js is modelled handler by handler.  History,  *)
(* InstancesSelection, the instances container and HighestZOrderFinder are *)
(* imported by index.js but their code is not part of the sources at hand: *)
(* they are modelled from the written specification (sections 4.1, 4.2, 6).*)
(***************************************************************************)
EXTENDS Integers, Sequences, FiniteSets, TLC

\* ------------------------------------------------------------- bounds
\* At most MaxInst instances live in a container (guards onAddInstance).
MaxInst == 2
\* Highest z-order an added instance may receive (guards onAddInstance).
MaxZ == 4
\* Largest x a move may reach (guards onInstancesMoved).
MaxX == 10
\* Depth at which history.past is capped.  The specification fixes that the
\* cap exists ("a fixed maximum depth") and not its value.
MaxPast == 2
\* Number of operations of a session that are followed (guards every handler).
MaxSteps == 5

\* ------------------------------------------------------------- values
Null == "null"
ObjectNames == {"Obj"}
BaseLayer == ""
Layers == {BaseLayer, "L1"}
Dxs == {10}
Xs == {0, 10}
\* Where the canvas asks for a new instance (neither is the default position).
\* The props componentWillReceiveProps compares.
ComparedProps == {"layout", "initialInstances", "project"}
AddXs == {5}
AddYs == {5}

\* Identities of the instances of a container.  A reference is the identity
\* of the instance it names; Stale is what a reference denotes once that
\* instance has been destroyed (removed from the container, or replaced when
\* the container is restored from a snapshot).
IdPool == 1..MaxInst
Stale == 0

Max(a, b) == IF a >= b THEN a ELSE b
Min(a, b) == IF a <= b THEN a ELSE b
Range(s) == {s[i] : i \in DOMAIN s}

VARIABLES
  initialInstances,      \* props.initialInstances: sequence of instances
  instancesSelection,    \* this.instancesSelection: sequence of identities
  history,               \* state.history: [past, present, future]
  selectedObjectName,    \* state.selectedObjectName
  layerRemoveDialogOpen, \* state.layerRemoveDialogOpen
  layerRemoved,          \* state.layerRemoved
  zOrderFinder,          \* this.zOrderFinder: [highestZOrder, firstCall]
  toolbar,               \* what setToolbar was last given: [canUndo, canRedo]
  ops,                   \* the last operations (see Logged)
  saved,                 \* right after an edit: the content before the edit;
                         \* right after the undo that follows an edit: the
                         \* content after that edit; else <<>>
  steps,                 \* number of operations handled so far
  pendingState,          \* state updates given to setState and not applied yet
  uiSettings,            \* state.uiSettings: [windowMask, grid, snap]
  panels,                \* state.objectsListOpen, instancesListOpen,
                         \* layersListOpen, setupGridOpen,
                         \* variablesEditedInstance
  doneCalled             \* the calls of `done`, the callback the last
                         \* _onRemoveLayer was given (see DoneCall)

vars == <<initialInstances, instancesSelection, history, selectedObjectName,
          layerRemoveDialogOpen, layerRemoved, zOrderFinder, toolbar,
          ops, saved, steps, pendingState, uiSettings, panels, doneCalled>>

\* ------------------------------------------------- instances container
\* An instance as the container holds it, and as a snapshot serializes it
\* (a snapshot keeps the content and the order, not the identity).
Instance(id, o, x, y, z, l) ==
  [id |-> id, objectName |-> o, x |-> x, y |-> y, zOrder |-> z, layer |-> l]

Serialized(i) ==
  [objectName |-> i.objectName, x |-> i.x, y |-> i.y,
   zOrder |-> i.zOrder, layer |-> i.layer]

Snapshot(instances) == [k \in DOMAIN instances |-> Serialized(instances[k])]

Ids(instances) == {instances[k].id : k \in DOMAIN instances}

\* The identity of a new instance: the smallest one no instance has.
NewId(instances) ==
  CHOOSE i \in IdPool \ Ids(instances) :
    \A j \in IdPool \ Ids(instances) : i <= j

\* restore(entry): the content is replaced as a whole; every instance of the
\* result is a new one.
Restore(entry) ==
  [k \in DOMAIN entry |->
     Instance(k, entry[k].objectName, entry[k].x, entry[k].y,
              entry[k].zOrder, entry[k].layer)]

\* The references `refs` once the container has been restored: all dangle.
AfterRestore(refs) == [k \in DOMAIN refs |-> Stale]

\* The references `refs` once only `instances` are left of a container.
AfterRemoval(refs, instances) ==
  [k \in DOMAIN refs |->
     IF refs[k] \in Ids(instances) THEN refs[k] ELSE Stale]

insertNewInitialInstance(instances, id) ==
  Append(instances, Instance(id, "", 0, 0, 0, BaseLayer))

removeInstance(instances, id) ==
  SelectSeq(instances, LAMBDA i : i.id # id)

removeAllInstancesOnLayer(instances, layerName) ==
  SelectSeq(instances, LAMBDA i : i.layer # layerName)

moveInstancesToLayer(instances, fromLayer, toLayer) ==
  [k \in DOMAIN instances |->
     IF instances[k].layer = fromLayer
       THEN [instances[k] EXCEPT !.layer = toLayer]
       ELSE instances[k]]

\* ------------------------------------------------- HighestZOrderFinder
NewHighestZOrderFinder == [highestZOrder |-> 0, firstCall |-> TRUE]

Visit(finder, instance) ==
  IF finder.firstCall
    THEN [highestZOrder |-> instance.zOrder, firstCall |-> FALSE]
    ELSE [finder EXCEPT !.highestZOrder = Max(@, instance.zOrder)]

RECURSIVE iterateOverInstances(_, _)
iterateOverInstances(instances, finder) ==
  IF instances = <<>> THEN finder
  ELSE iterateOverInstances(Tail(instances), Visit(finder, Head(instances)))

\* ------------------------------------------------------------- History
getHistoryInitialState(instances) ==
  [past |-> <<>>, present |-> Snapshot(instances), future |-> <<>>]

\* commit: the previous present goes onto past (the oldest entry is dropped
\* beyond the cap), the container is snapshotted, future is cleared.
saveToHistory(h, instances) ==
  LET pushed == Append(h.past, h.present)
  IN [past |-> IF Len(pushed) > MaxPast THEN Tail(pushed) ELSE pushed,
      present |-> Snapshot(instances),
      future |-> <<>>]

canUndo(h) == h.past # <<>>
canRedo(h) == h.future # <<>>

historyUndo(h) ==
  IF h.past = <<>> THEN h
  ELSE [past |-> SubSeq(h.past, 1, Len(h.past) - 1),
        present |-> h.past[Len(h.past)],
        future |-> <<h.present>> \o h.future]

historyRedo(h) ==
  IF h.future = <<>> THEN h
  ELSE [past |-> Append(h.past, h.present),
        present |-> Head(h.future),
        future |-> Tail(h.future)]

\* ------------------------------------------------- InstancesSelection
clearSelection == <<>>

selectInstance(selection, id) ==
  IF id \in Range(selection) THEN selection ELSE Append(selection, id)

RECURSIVE selectAll(_, _)
selectAll(selection, ids) ==
  IF ids = <<>> THEN selection
  ELSE selectAll(selectInstance(selection, Head(ids)), Tail(ids))

\* ------------------------------------------------------------- states
\* Containers a session can be opened on (and switched to).
InitialContents ==
  { << [objectName |-> "Obj", x |-> 0, y |-> 0, zOrder |-> 1, layer |-> "L1"],
       [objectName |-> "Obj", x |-> 0, y |-> 0, zOrder |-> 3, layer |-> "L1"] >>,
    << [objectName |-> "Obj", x |-> 0, y |-> 0, zOrder |-> -2, layer |-> BaseLayer] >> }

\* props.initialUiSettings, and the grid options the setup dialog applies.
initialUiSettings == [windowMask |-> FALSE, grid |-> FALSE, snap |-> FALSE]
GridOptions == {[snap |-> FALSE], [grid |-> TRUE, snap |-> TRUE]}

updateToolbar(h) == [canUndo |-> canUndo(h), canRedo |-> canRedo(h)]

\* Operations that edit the container, and the two outcomes of undo (it
\* restored an entry, or past was empty).
EditOps == {"add", "move", "modify", "delete", "removeLayerDelete",
            "removeLayerMove"}
UndoOps == {"undo", "undoNothing"}

Last(s) == s[Len(s)]

\* ops after operation `op`: the last operation, preceded by the one before
\* it when both are edits or undos.
Logged(op) ==
  IF /\ op \in EditOps \cup UndoOps
     /\ ops # <<>>
     /\ Last(ops) \in EditOps \cup UndoOps
    THEN <<Last(ops), op>>
    ELSE <<op>>

Init ==
  /\ \E c \in InitialContents : initialInstances = Restore(c)
  /\ instancesSelection = <<>>
  /\ history = getHistoryInitialState(initialInstances)
  /\ selectedObjectName = Null
  /\ layerRemoveDialogOpen = FALSE
  /\ layerRemoved = Null
  /\ zOrderFinder = NewHighestZOrderFinder
  /\ toolbar = updateToolbar(history)
  /\ ops = <<>>
  /\ saved = <<>>
  /\ steps = 0
  /\ pendingState = <<>>
  /\ uiSettings = initialUiSettings
  /\ panels = [objectsListOpen |-> FALSE, instancesListOpen |-> FALSE,
               layersListOpen |-> FALSE, setupGridOpen |-> FALSE,
               variablesEditedInstance |-> <<>>]
  /\ doneCalled = <<>>

\* ------------------------------------------------------------ handlers
\* One more operation is handled.
Counted == steps < MaxSteps /\ steps' = steps + 1

\* One more operation is handled by a handler that gives setState neither
\* uiSettings nor the flag of a panel or dialog.
Handled == Counted /\ UNCHANGED <<uiSettings, panels>>

\* One more operation is handled, and the state it gave to setState is
\* applied (and the callback of setState run) before anything else happens.
Step == Handled /\ UNCHANGED <<pendingState, doneCalled>>

\* The same for the handlers of the layer removal, which deal with `done`.
LayerStep == Handled /\ UNCHANGED pendingState

\* A call done(doRemove), with what the caller finds when it is called: the
\* state's layerRemoveDialogOpen and the content of the container.
DoneCall(doRemove, dialogOpen, instances) ==
  [doRemove |-> doRemove, layerRemoveDialogOpen |-> dialogOpen,
   instances |-> Snapshot(instances)]

\* undo that restores the container from the present it is left with, also
\* when past was empty.
undoAlwaysRestoring ==
  /\ history' = historyUndo(history)
  /\ initialInstances' = Restore(history'.present)
  /\ instancesSelection' = AfterRestore(instancesSelection)
  /\ toolbar' = updateToolbar(history')
  /\ ops' = Logged(IF canUndo(history) THEN "undo" ELSE "undoNothing")
  /\ UNCHANGED <<selectedObjectName, layerRemoveDialogOpen, layerRemoved,
                 zOrderFinder>>
  /\ saved' = IF ops # <<>> /\ Last(ops) \in EditOps
                THEN Snapshot(initialInstances)
                ELSE <<>>
  /\ Step

\* undo (index.js 149-161): state.history is replaced by History's undo, which
\* restores the container from the entry it pops; then the toolbar is updated.
undo ==
  /\ history' = historyUndo(history)
  /\ initialInstances' =
       IF canUndo(history)
         THEN Restore(history'.present)
         ELSE initialInstances
  /\ instancesSelection' =
       IF canUndo(history)
         THEN AfterRestore(instancesSelection)
         ELSE instancesSelection
  /\ toolbar' = updateToolbar(history')
  /\ ops' = Logged(IF canUndo(history) THEN "undo" ELSE "undoNothing")
  /\ UNCHANGED <<selectedObjectName, layerRemoveDialogOpen, layerRemoved,
                 zOrderFinder>>
  /\ saved' = IF ops # <<>> /\ Last(ops) \in EditOps
                THEN Snapshot(initialInstances)
                ELSE <<>>
  /\ Step

\* redo (index.js 163-175).
redo ==
  /\ history' = historyRedo(history)
  /\ initialInstances' =
       IF canRedo(history)
         THEN Restore(history'.present)
         ELSE initialInstances
  /\ instancesSelection' =
       IF canRedo(history)
         THEN AfterRestore(instancesSelection)
         ELSE instancesSelection
  /\ toolbar' = updateToolbar(history')
  /\ ops' = Logged("redo")
  /\ UNCHANGED <<selectedObjectName, layerRemoveDialogOpen, layerRemoved,
                 zOrderFinder>>
  /\ saved' = <<>>
  /\ Step

\* _onObjectSelected (index.js 177-181).
onObjectSelected ==
  \E name \in ObjectNames :
    /\ selectedObjectName' = name
    /\ ops' = Logged("objectSelected")
    /\ UNCHANGED <<initialInstances, instancesSelection, history,
                   layerRemoveDialogOpen, layerRemoved, zOrderFinder, toolbar>>
    /\ saved' = <<>>
    /\ Step

\* _onAddInstance that saves to history before it finds no object is chosen.
onAddInstanceNoObjectCommitting ==
  /\ selectedObjectName = Null
  /\ history' = saveToHistory(history, initialInstances)
  /\ toolbar' = updateToolbar(history')
  /\ ops' = Logged("addNothing")
  /\ UNCHANGED <<initialInstances, instancesSelection, selectedObjectName,
                 layerRemoveDialogOpen, layerRemoved, zOrderFinder>>
  /\ saved' = <<>>
  /\ Step

\* _onAddInstance (index.js 183-201) when no object is chosen: early return.
onAddInstanceNoObject ==
  /\ selectedObjectName = Null
  /\ ops' = Logged("addNothing")
  /\ UNCHANGED <<initialInstances, instancesSelection, history,
                 selectedObjectName, layerRemoveDialogOpen, layerRemoved,
                 zOrderFinder, toolbar>>
  /\ saved' = <<>>
  /\ Step

\* _onAddInstance that reads the finder without iterating over the container.
onAddInstanceAtWithoutIteration(x, y, objectName) ==
    LET newInstanceObjectName ==
          IF objectName # "" THEN objectName ELSE selectedObjectName
        inserted == insertNewInitialInstance(initialInstances,
                                             NewId(initialInstances))
        n == Len(inserted)
        placed == [inserted EXCEPT ![n].objectName = newInstanceObjectName,
                                   ![n].x = x, ![n].y = y]
        finder == zOrderFinder
    IN /\ newInstanceObjectName # Null
       /\ Len(initialInstances) < MaxInst
       /\ finder.highestZOrder + 1 <= MaxZ
       /\ zOrderFinder' = finder
       /\ initialInstances' =
            [placed EXCEPT ![n].zOrder = finder.highestZOrder + 1]
       /\ selectedObjectName' = Null
       /\ history' = saveToHistory(history, initialInstances')
       /\ toolbar' = updateToolbar(history')
       /\ ops' = Logged("add")
       /\ saved' = Snapshot(initialInstances)
       /\ Step
       /\ UNCHANGED <<instancesSelection, layerRemoveDialogOpen, layerRemoved>>

\* _onAddInstance that leaves the new instance at its default position.
onAddInstanceAtDefaultPosition(x, y, objectName) ==
    LET newInstanceObjectName ==
          IF objectName # "" THEN objectName ELSE selectedObjectName
        inserted == insertNewInitialInstance(initialInstances,
                                             NewId(initialInstances))
        n == Len(inserted)
        placed == [inserted EXCEPT ![n].objectName = newInstanceObjectName]
        finder == iterateOverInstances(placed, zOrderFinder)
    IN /\ newInstanceObjectName # Null
       /\ Len(initialInstances) < MaxInst
       /\ finder.highestZOrder + 1 <= MaxZ
       /\ zOrderFinder' = finder
       /\ initialInstances' =
            [placed EXCEPT ![n].zOrder = finder.highestZOrder + 1]
       /\ selectedObjectName' = Null
       /\ history' = saveToHistory(history, initialInstances')
       /\ toolbar' = updateToolbar(history')
       /\ ops' = Logged("add")
       /\ saved' = Snapshot(initialInstances)
       /\ Step
       /\ UNCHANGED <<instancesSelection, layerRemoveDialogOpen, layerRemoved>>

\* _onAddInstance (index.js 183-201) with an object: the instance is inserted
\* and set up, the finder (never reset) visits the whole container, the new
\* instance included, and history is saved.
onAddInstanceAt(x, y, objectName) ==
    LET newInstanceObjectName ==
          IF objectName # "" THEN objectName ELSE selectedObjectName
        inserted == insertNewInitialInstance(initialInstances,
                                             NewId(initialInstances))
        n == Len(inserted)
        placed == [inserted EXCEPT ![n].objectName = newInstanceObjectName,
                                   ![n].x = x, ![n].y = y]
        finder == iterateOverInstances(placed, zOrderFinder)
    IN /\ newInstanceObjectName # Null
       /\ Len(initialInstances) < MaxInst
       /\ finder.highestZOrder + 1 <= MaxZ
       /\ zOrderFinder' = finder
       /\ initialInstances' =
            [placed EXCEPT ![n].zOrder = finder.highestZOrder + 1]
       /\ selectedObjectName' = Null
       /\ history' = saveToHistory(history, initialInstances')
       /\ toolbar' = updateToolbar(history')
       /\ ops' = Logged("add")
       /\ saved' = Snapshot(initialInstances)
       /\ Step
       /\ UNCHANGED <<instancesSelection, layerRemoveDialogOpen, layerRemoved>>

onAddInstance ==
  \E x \in AddXs, y \in AddYs, objectName \in ObjectNames \cup {""} :
    onAddInstanceAt(x, y, objectName)

\* onInstancesMoved that pushes the present onto past itself and keeps future.
onInstancesMovedKeepingFuture ==
  \E k \in DOMAIN initialInstances, dx \in Dxs :
    /\ initialInstances[k].x + dx <= MaxX
    /\ initialInstances' = [initialInstances EXCEPT ![k].x = @ + dx]
    /\ history' = [saveToHistory(history, initialInstances')
                     EXCEPT !.future = history.future]
    /\ ops' = Logged("move")
    /\ saved' = Snapshot(initialInstances)
    /\ Step
    /\ UNCHANGED <<instancesSelection, selectedObjectName,
                   layerRemoveDialogOpen, layerRemoved, zOrderFinder, toolbar>>

\* _onInstancesMoved that saves to history twice.
onInstancesMovedCommittingTwice ==
  \E k \in DOMAIN initialInstances, dx \in Dxs :
    /\ initialInstances[k].x + dx <= MaxX
    /\ initialInstances' = [initialInstances EXCEPT ![k].x = @ + dx]
    /\ history' = saveToHistory(saveToHistory(history, initialInstances'),
                                initialInstances')
    /\ ops' = Logged("move")
    /\ saved' = Snapshot(initialInstances)
    /\ Step
    /\ UNCHANGED <<instancesSelection, selectedObjectName,
                   layerRemoveDialogOpen, layerRemoved, zOrderFinder, toolbar>>

\* _onInstancesMoved (index.js 208-212): the canvas has moved an instance and
\* reports it; history is saved, the toolbar is not updated.
onInstancesMoved ==
  \E k \in DOMAIN initialInstances, dx \in Dxs :
    /\ initialInstances[k].x + dx <= MaxX
    /\ initialInstances' = [initialInstances EXCEPT ![k].x = @ + dx]
    /\ history' = saveToHistory(history, initialInstances')
    /\ ops' = Logged("move")
    /\ saved' = Snapshot(initialInstances)
    /\ Step
    /\ UNCHANGED <<instancesSelection, selectedObjectName,
                   layerRemoveDialogOpen, layerRemoved, zOrderFinder, toolbar>>

\* _onInstancesModified (index.js 214-217): the properties panel has edited a
\* property of a selected instance and reports it; the handler only re-renders.
onInstancesModified ==
  \E k \in DOMAIN initialInstances, x \in Xs :
    /\ initialInstances[k].id \in Range(instancesSelection)
    /\ initialInstances[k].x # x
    /\ initialInstances' = [initialInstances EXCEPT ![k].x = x]
    /\ ops' = Logged("modify")
    /\ saved' = Snapshot(initialInstances)
    /\ Step
    /\ UNCHANGED <<instancesSelection, history, selectedObjectName,
                   layerRemoveDialogOpen, layerRemoved, zOrderFinder, toolbar>>

\* Sequences of at most two instances of the container, repeats included.
SelectableSeqs ==
  LET live == Ids(initialInstances)
  IN {<<>>} \cup {<<a>> : a \in live} \cup {<<a, b>> : a \in live, b \in live}

\* _onSelectInstances that does not clear the selection first.
onSelectInstancesOfKeepingSelection(instances) ==
  /\ instancesSelection' = selectAll(instancesSelection, instances)
  /\ toolbar' = updateToolbar(history)
  /\ ops' = Logged("select")
  /\ UNCHANGED <<initialInstances, history, selectedObjectName,
                 layerRemoveDialogOpen, layerRemoved, zOrderFinder>>
  /\ saved' = <<>>
  /\ Step

\* _onSelectInstances (index.js 219-229).
onSelectInstancesOf(instances) ==
  /\ instancesSelection' = selectAll(clearSelection, instances)
  /\ toolbar' = updateToolbar(history)
  /\ ops' = Logged("select")
  /\ UNCHANGED <<initialInstances, history, selectedObjectName,
                 layerRemoveDialogOpen, layerRemoved, zOrderFinder>>
  /\ saved' = <<>>
  /\ Step

onSelectInstances ==
  \E instances \in SelectableSeqs : onSelectInstancesOf(instances)

\* _onRemoveLayer (index.js 231-235, 262): the request opens the dialog.
onRemoveLayer ==
  \E layerName \in Layers \ {BaseLayer} :
    /\ layerRemoveDialogOpen' = TRUE
    /\ layerRemoved' = layerName
    /\ ops' = Logged("requestRemoveLayer")
    /\ UNCHANGED <<initialInstances, instancesSelection, history,
                   selectedObjectName, zOrderFinder, toolbar>>
    /\ saved' = <<>>
    /\ doneCalled' = <<>>
    /\ LayerStep

\* onCloseLayerRemoveDialog (index.js 235-261) with doRemove false: the dialog
\* is closed, then done is called.
onCloseLayerRemoveDialogCancel ==
  /\ layerRemoveDialogOpen
  /\ layerRemoveDialogOpen' = FALSE
  /\ UNCHANGED <<initialInstances, instancesSelection, history,
                 selectedObjectName, layerRemoved, zOrderFinder>>
  /\ doneCalled' = Append(doneCalled,
                          DoneCall(FALSE, layerRemoveDialogOpen',
                                   initialInstances'))
  /\ toolbar' = updateToolbar(history)
  /\ ops' = Logged("cancelRemoveLayer")
  /\ saved' = <<>>
  /\ LayerStep

\* onCloseLayerRemoveDialog that calls done before it changes the container.
onCloseLayerRemoveDialogToDoneFirst(newLayer) ==
  /\ layerRemoveDialogOpen
  /\ layerRemoveDialogOpen' = FALSE
  /\ doneCalled' = Append(doneCalled,
                          DoneCall(TRUE, layerRemoveDialogOpen',
                                   initialInstances))
  /\ initialInstances' =
       IF newLayer = Null
         THEN removeAllInstancesOnLayer(initialInstances, layerRemoved)
         ELSE moveInstancesToLayer(initialInstances, layerRemoved, newLayer)
  /\ toolbar' = updateToolbar(history)
  /\ ops' = Logged(IF newLayer = Null THEN "removeLayerDelete"
                                      ELSE "removeLayerMove")
  /\ instancesSelection' = AfterRemoval(instancesSelection, initialInstances')
  /\ saved' = Snapshot(initialInstances)
  /\ LayerStep
  /\ UNCHANGED <<history, selectedObjectName, layerRemoved, zOrderFinder>>

\* onCloseLayerRemoveDialog (index.js 235-261) with doRemove true: the dialog
\* is closed, the instances of the layer are removed (newLayer null) or moved
\* to newLayer, then done is called and the toolbar updated.
onCloseLayerRemoveDialogTo(newLayer) ==
  /\ layerRemoveDialogOpen
  /\ layerRemoveDialogOpen' = FALSE
  /\ initialInstances' =
       IF newLayer = Null
         THEN removeAllInstancesOnLayer(initialInstances, layerRemoved)
         ELSE moveInstancesToLayer(initialInstances, layerRemoved, newLayer)
  /\ doneCalled' = Append(doneCalled,
                          DoneCall(TRUE, layerRemoveDialogOpen',
                                   initialInstances'))
  /\ toolbar' = updateToolbar(history)
  /\ ops' = Logged(IF newLayer = Null THEN "removeLayerDelete"
                                      ELSE "removeLayerMove")
  /\ instancesSelection' = AfterRemoval(instancesSelection, initialInstances')
  /\ saved' = Snapshot(initialInstances)
  /\ LayerStep
  /\ UNCHANGED <<history, selectedObjectName, layerRemoved, zOrderFinder>>

onCloseLayerRemoveDialog ==
  \E newLayer \in {Null} \cup (Layers \ {layerRemoved}) :
    onCloseLayerRemoveDialogTo(newLayer)

RECURSIVE removeInstances(_, _)
removeInstances(instances, ids) ==
  IF ids = <<>> THEN instances
  ELSE removeInstances(removeInstance(instances, Head(ids)), Tail(ids))

\* deleteSelection that removes the first selected instance only.
deleteSelectionFirstOnly ==
  /\ initialInstances' =
       IF instancesSelection = <<>> THEN initialInstances
       ELSE removeInstance(initialInstances, Head(instancesSelection))
  /\ instancesSelection' = clearSelection
  /\ history' = saveToHistory(history, initialInstances')
  /\ toolbar' = updateToolbar(history')
  /\ ops' = Logged("delete")
  /\ saved' = Snapshot(initialInstances)
  /\ Step
  /\ UNCHANGED <<selectedObjectName, layerRemoveDialogOpen, layerRemoved,
                 zOrderFinder>>

\* deleteSelection (index.js 265-280).
deleteSelection ==
  /\ initialInstances' = removeInstances(initialInstances, instancesSelection)
  /\ instancesSelection' = clearSelection
  /\ history' = saveToHistory(history, initialInstances')
  /\ toolbar' = updateToolbar(history')
  /\ ops' = Logged("delete")
  /\ saved' = Snapshot(initialInstances)
  /\ Step
  /\ UNCHANGED <<selectedObjectName, layerRemoveDialogOpen, layerRemoved,
                 zOrderFinder>>

\* componentWillReceiveProps that compares the instances container only.
componentWillReceivePropsWithContainerOnly(changed, c) ==
  /\ initialInstances' =
       IF "initialInstances" \in changed THEN Restore(c) ELSE initialInstances
  /\ instancesSelection' =
       IF "initialInstances" \in changed
         THEN clearSelection
         ELSE instancesSelection
  /\ ops' = Logged(IF changed # {} THEN "switch" ELSE "receiveProps")
  /\ UNCHANGED <<history, selectedObjectName, layerRemoveDialogOpen,
                 layerRemoved, zOrderFinder, toolbar>>
  /\ saved' = <<>>
  /\ Step

\* componentWillReceiveProps (index.js 91-99): `changed` are the props among
\* layout, initialInstances and project that differ in nextProps, c is the
\* content of the next instances container when that one differs.  The
\* selection is cleared when any of them differs; state.history is left as it
\* is.
componentWillReceivePropsWith(changed, c) ==
  /\ initialInstances' =
       IF "initialInstances" \in changed THEN Restore(c) ELSE initialInstances
  /\ instancesSelection' =
       IF changed # {} THEN clearSelection ELSE instancesSelection
  /\ ops' = Logged(IF changed # {} THEN "switch" ELSE "receiveProps")
  /\ UNCHANGED <<history, selectedObjectName, layerRemoveDialogOpen,
                 layerRemoved, zOrderFinder, toolbar>>
  /\ saved' = <<>>
  /\ Step

componentWillReceiveProps ==
  \E changed \in SUBSET ComparedProps, c \in InitialContents :
    componentWillReceivePropsWith(changed, c)

Next ==
  \/ undo
  \/ redo
  \/ onObjectSelected
  \/ onAddInstanceNoObject
  \/ onAddInstance
  \/ onInstancesMoved
  \/ onInstancesModified
  \/ onSelectInstances
  \/ onRemoveLayer
  \/ onCloseLayerRemoveDialogCancel
  \/ onCloseLayerRemoveDialog
  \/ deleteSelection
  \/ componentWillReceiveProps

Spec == Init /\ [][Next]_vars

\* A session that stays on the instances container it was opened on.
NextSameContainer ==
  \/ undo
  \/ redo
  \/ onObjectSelected
  \/ onAddInstanceNoObject
  \/ onAddInstance
  \/ onInstancesMoved
  \/ onInstancesModified
  \/ onSelectInstances
  \/ onRemoveLayer
  \/ onCloseLayerRemoveDialogCancel
  \/ onCloseLayerRemoveDialog
  \/ deleteSelection

SpecSameContainer == Init /\ [][NextSameContainer]_vars


\* ------------------------------------------- setState applied later
\* setState may apply the state it is given later than the call: a handler
\* that runs in between still reads the former this.state.  An entry of
\* pendingState is the state one call gave: the history, whether
\* selectedObjectName is set to null, whether the callback updates the toolbar.
PendingState(h, clearsObject, updatesToolbar) ==
  [history |-> h, clearsObject |-> clearsObject,
   updatesToolbar |-> updatesToolbar]

\* _onAddInstance (index.js 183-201), the state given to setState left pending.
onAddInstanceBatched ==
  \E x \in AddXs, y \in AddYs, objectName \in ObjectNames \cup {""} :
    LET newInstanceObjectName ==
          IF objectName # "" THEN objectName ELSE selectedObjectName
        inserted == insertNewInitialInstance(initialInstances,
                                             NewId(initialInstances))
        n == Len(inserted)
        placed == [inserted EXCEPT ![n].objectName = newInstanceObjectName,
                                   ![n].x = x, ![n].y = y]
        finder == iterateOverInstances(placed, zOrderFinder)
    IN /\ newInstanceObjectName # Null
       /\ Len(initialInstances) < MaxInst
       /\ finder.highestZOrder + 1 <= MaxZ
       /\ zOrderFinder' = finder
       /\ initialInstances' =
            [placed EXCEPT ![n].zOrder = finder.highestZOrder + 1]
       /\ pendingState' =
            Append(pendingState,
                   PendingState(saveToHistory(history, initialInstances'),
                                TRUE, TRUE))
       /\ ops' = Logged("add")
       /\ saved' = Snapshot(initialInstances)
       /\ Handled
       /\ UNCHANGED doneCalled
       /\ UNCHANGED <<instancesSelection, history, selectedObjectName,
                      layerRemoveDialogOpen, layerRemoved, toolbar>>

\* _onInstancesMoved (index.js 208-212), the state given to setState left
\* pending.
onInstancesMovedBatched ==
  \E k \in DOMAIN initialInstances, dx \in Dxs :
    /\ initialInstances[k].x + dx <= MaxX
    /\ initialInstances' = [initialInstances EXCEPT ![k].x = @ + dx]
    /\ pendingState' =
         Append(pendingState,
                PendingState(saveToHistory(history, initialInstances'),
                             FALSE, FALSE))
    /\ ops' = Logged("move")
    /\ saved' = Snapshot(initialInstances)
    /\ Handled
    /\ UNCHANGED doneCalled
    /\ UNCHANGED <<instancesSelection, history, selectedObjectName,
                   layerRemoveDialogOpen, layerRemoved, zOrderFinder, toolbar>>

\* deleteSelection (index.js 265-280), the state given to setState left
\* pending.
deleteSelectionBatched ==
  /\ initialInstances' = removeInstances(initialInstances, instancesSelection)
  /\ instancesSelection' = clearSelection
  /\ pendingState' =
       Append(pendingState,
              PendingState(saveToHistory(history, initialInstances'),
                           FALSE, TRUE))
  /\ ops' = Logged("delete")
  /\ saved' = Snapshot(initialInstances)
  /\ Handled
  /\ UNCHANGED doneCalled
  /\ UNCHANGED <<history, selectedObjectName, layerRemoveDialogOpen,
                 layerRemoved, zOrderFinder, toolbar>>

\* The pending states are applied in the order they were given (each is
\* merged into this.state), then the callbacks run.
applyPendingState ==
  /\ pendingState # <<>>
  /\ history' = Last(pendingState).history
  /\ selectedObjectName' =
       IF \E k \in DOMAIN pendingState : pendingState[k].clearsObject
         THEN Null
         ELSE selectedObjectName
  /\ toolbar' =
       IF \E k \in DOMAIN pendingState : pendingState[k].updatesToolbar
         THEN updateToolbar(history')
         ELSE toolbar
  /\ pendingState' = <<>>
  /\ UNCHANGED <<initialInstances, instancesSelection, layerRemoveDialogOpen,
                 layerRemoved, zOrderFinder, ops, saved, steps, uiSettings,
                 panels, doneCalled>>

\* A session in which the edits that save to history may be handled before
\* the state of the previous one is applied.
NextBatched ==
  \/ onObjectSelected
  \/ onSelectInstances
  \/ onAddInstanceBatched
  \/ onInstancesMovedBatched
  \/ deleteSelectionBatched
  \/ applyPendingState

SpecBatched == Init /\ [][NextBatched]_vars


\* ----------------------------------------------- view settings, panels
\* What a handler of the view settings and panels leaves alone.
ViewOnly ==
  /\ ops' = Logged("view")
  /\ saved' = <<>>
  /\ Counted
  /\ UNCHANGED <<initialInstances, instancesSelection, history,
                 selectedObjectName, layerRemoveDialogOpen, layerRemoved,
                 zOrderFinder, toolbar, pendingState, doneCalled>>

\* toggleObjectsList (index.js 101-103).
toggleObjectsList ==
  /\ panels' = [panels EXCEPT !.objectsListOpen = ~@]
  /\ UNCHANGED uiSettings
  /\ ViewOnly

\* toggleInstancesList (index.js 105-107).
toggleInstancesList ==
  /\ panels' = [panels EXCEPT !.instancesListOpen = ~@]
  /\ UNCHANGED uiSettings
  /\ ViewOnly

\* toggleLayersList (index.js 109-111).
toggleLayersList ==
  /\ panels' = [panels EXCEPT !.layersListOpen = ~@]
  /\ UNCHANGED uiSettings
  /\ ViewOnly

\* toggleWindowMask (index.js 113-120).
toggleWindowMask ==
  /\ uiSettings' = [uiSettings EXCEPT !.windowMask = ~@]
  /\ UNCHANGED panels
  /\ ViewOnly

\* toggleGrid that also saves to history.
toggleGridHistorized ==
  /\ uiSettings' = [uiSettings EXCEPT !.grid = ~uiSettings.grid,
                                      !.snap = ~uiSettings.grid]
  /\ history' = saveToHistory(history, initialInstances)
  /\ ops' = Logged("view")
  /\ saved' = <<>>
  /\ Counted
  /\ UNCHANGED <<initialInstances, instancesSelection, selectedObjectName,
                 layerRemoveDialogOpen, layerRemoved, zOrderFinder, toolbar,
                 pendingState, panels, doneCalled>>

\* toggleGrid (index.js 122-130): snap follows grid.
toggleGrid ==
  /\ uiSettings' = [uiSettings EXCEPT !.grid = ~uiSettings.grid,
                                      !.snap = ~uiSettings.grid]
  /\ UNCHANGED panels
  /\ ViewOnly

\* openSetupGrid (index.js 132-134).
openSetupGrid ==
  \E open \in BOOLEAN :
    /\ panels' = [panels EXCEPT !.setupGridOpen = open]
    /\ UNCHANGED uiSettings
    /\ ViewOnly

\* editInstanceVariables (index.js 136-138): the instance is <<id>>, and <<>>
\* for null.
editInstanceVariables ==
  \E instance \in {<<id>> : id \in Ids(initialInstances)} \cup {<<>>} :
    /\ panels' = [panels EXCEPT !.variablesEditedInstance = instance]
    /\ UNCHANGED uiSettings
    /\ ViewOnly

\* setUiSettings (index.js 140-147): the given settings are merged into
\* state.uiSettings.
setUiSettings ==
  \E given \in GridOptions :
    /\ uiSettings' = [k \in DOMAIN uiSettings |->
                        IF k \in DOMAIN given THEN given[k] ELSE uiSettings[k]]
    /\ UNCHANGED panels
    /\ ViewOnly

ViewStep ==
  \/ toggleObjectsList
  \/ toggleInstancesList
  \/ toggleLayersList
  \/ toggleWindowMask
  \/ toggleGrid
  \/ openSetupGrid
  \/ editInstanceVariables
  \/ setUiSettings

\* A session in which the view settings and panels are used along with undo,
\* redo, the handlers that edit the container and what these need (a
\* selection, an open dialog).
NextWithView ==
  \/ undo
  \/ redo
  \/ onAddInstance
  \/ onInstancesMoved
  \/ onInstancesModified
  \/ onSelectInstances
  \/ onRemoveLayer
  \/ onCloseLayerRemoveDialog
  \/ deleteSelection
  \/ toggleObjectsList
  \/ toggleInstancesList
  \/ toggleLayersList
  \/ toggleWindowMask
  \/ toggleGrid
  \/ openSetupGrid
  \/ editInstanceVariables
  \/ setUiSettings

SpecWithView == Init /\ [][NextWithView]_vars


\* --------------------------------------------------------------- claims
\* Handlers that save to history, and handlers that edit the container.
CommitStep == onAddInstance \/ onInstancesMoved \/ deleteSelection
EditStep ==
  \/ CommitStep
  \/ onInstancesModified
  \/ onCloseLayerRemoveDialog
CommittingOps == {"add", "move", "delete"}

\* history2 is history after exactly one commit that left the container with
\* content `snapshot`: the previous present is the newest entry of past, the
\* older entries follow in order (the oldest dropped at the cap), future is
\* empty.
CommittedOnce(h, h2, snapshot) ==
  /\ h2.present = snapshot
  /\ h2.future = <<>>
  /\ Len(h2.past) = Min(Len(h.past) + 1, MaxPast)
  /\ Last(h2.past) = h.present
  /\ \A k \in 1..(Len(h2.past) - 1) :
       h2.past[k] = h.past[Len(h.past) - (Len(h2.past) - 1) + k]

\* C1: an undo right after a committed edit leaves the container with the
\* content it had just before that edit, and a redo right after that undo
\* leaves it with the content it had just after the edit.
C1_UndoRedoInverse ==
  [][ /\ (ops # <<>> /\ Last(ops) \in CommittingOps /\ undo)
           => Snapshot(initialInstances') = saved
      /\ (Len(ops) = 2 /\ ops[1] \in CommittingOps /\ ops[2] \in UndoOps
            /\ redo)
           => Snapshot(initialInstances') = saved ]_vars

\* C2: every commit empties history.future, so that canRedo is false; and a
\* redo with an empty future changes neither the history nor the container.
C2_BranchDiscard ==
  [][ /\ CommitStep => (history'.future = <<>> /\ ~canRedo(history'))
      /\ (redo /\ history.future = <<>>)
           => (history' = history /\ initialInstances' = initialInstances) ]_vars

\* C2 witness: an edit has been committed right after an undo that restored an
\* entry, and future is empty.
C2_Witness ==
  /\ Len(ops) = 2
  /\ ops[1] = "undo"
  /\ ops[2] \in CommittingOps
  /\ history.future = <<>>

\* C3: every reference of the selection names an instance of the container.
C3_SelectionValid ==
  \A k \in DOMAIN instancesSelection :
    instancesSelection[k] \in Ids(initialInstances)

\* C4: after every undo and every redo the selection is empty.
C4_UndoRedoClearSelection ==
  [][(undo \/ redo) => instancesSelection' = <<>>]_vars

\* C5: a confirmed layer removal commits history exactly once: past grows by
\* one entry (the previous present), present is the snapshot of the container
\* after the removal, future is empty.
C5_RemoveLayerCommitsOnce ==
  [][onCloseLayerRemoveDialog =>
       /\ Len(history'.past) = Len(history.past) + 1
       /\ Last(history'.past) = history.present
       /\ history'.present = Snapshot(initialInstances')
       /\ history'.future = <<>>]_vars

\* C6: an undo right after a layer removal that deleted the instances leaves
\* the container with the content it had just before the removal.
C6_RemoveLayerUndo ==
  [][(ops # <<>> /\ Last(ops) = "removeLayerDelete" /\ undo)
       => Snapshot(initialInstances') = saved]_vars

\* C7: deleteSelection with an empty selection changes neither the history
\* nor the container.
C7_EmptyDeleteNoCommit ==
  [][(deleteSelection /\ instancesSelection = <<>>)
       => (history' = history /\ initialInstances' = initialInstances)]_vars

\* C8: deleteSelection with a non-empty selection removes every selected
\* instance and no other, leaves the selection empty and commits history
\* exactly once.
C8_DeleteSelection ==
  [][(deleteSelection /\ instancesSelection # <<>>) =>
       /\ initialInstances' =
            SelectSeq(initialInstances,
                      LAMBDA i : i.id \notin Range(instancesSelection))
       /\ instancesSelection' = <<>>
       /\ CommittedOnce(history, history', Snapshot(initialInstances'))]_vars

\* C8 witness: a deleteSelection has just removed instances.
C8_Witness ==
  /\ ops # <<>> /\ Last(ops) = "delete"
  /\ Len(saved) > Len(initialInstances)
  /\ instancesSelection = <<>>

\* C9: after every operation that edits the container, history.present is the
\* snapshot of the container.
C9_PresentIsSnapshot ==
  [][EditStep => history'.present = Snapshot(initialInstances')]_vars

\* C10: a reported property edit commits history: past grows by one entry and
\* present is the snapshot of the container with the edit.
C10_ModifyCommits ==
  [][onInstancesModified =>
       /\ Len(history'.past) = Len(history.past) + 1
       /\ history'.present = Snapshot(initialInstances')]_vars

\* The highest z-order among `instances` (which is not empty).
HighestZOrder(instances) ==
  CHOOSE z \in {instances[k].zOrder : k \in DOMAIN instances} :
    \A k \in DOMAIN instances : instances[k].zOrder <= z

\* C11: an add gives the new instance the z-order (highest z-order among the
\* instances the container had before the add) + 1.
C11_AddZOrderIsMaxPlusOne ==
  [][(onAddInstance /\ initialInstances # <<>>) =>
       Last(initialInstances').zOrder = HighestZOrder(initialInstances) + 1]_vars

\* C12: an add gives the new instance a z-order strictly greater than the
\* z-order of every instance the container had before the add, on any layer.
C12_ZOrderMonotonic ==
  [][onAddInstance =>
       \A k \in DOMAIN initialInstances :
         initialInstances[k].zOrder < Last(initialInstances').zOrder]_vars

\* C12 witness: an add has just been handled after a deletion, and the
\* container had an instance before it.
C12_Witness ==
  /\ ops = <<"delete", "add">>
  /\ Len(initialInstances) >= 2
  /\ \A k \in 1..(Len(initialInstances) - 1) :
       initialInstances[k].zOrder < Last(initialInstances).zOrder

\* C13: an add with no object chosen (no object name given, none selected to
\* place) inserts nothing and leaves the container, the selection, the object
\* selected to place and the history as they are.
C13_AddNoObjectNoOp ==
  [][onAddInstanceNoObject =>
       UNCHANGED <<initialInstances, instancesSelection, selectedObjectName,
                   history>>]_vars

\* C13 witness: an add with no object chosen has just been handled in a
\* session that has a past and a selection.
C13_Witness ==
  /\ ops = <<"addNothing">>
  /\ history.past # <<>>
  /\ instancesSelection # <<>>
  /\ selectedObjectName = Null

\* C14: an add with an object name appends exactly one instance that has this
\* name and the given position, leaves the other instances as they are,
\* clears the object selected to place and commits history exactly once.
C14_AddInstance ==
  [][\A x \in AddXs, y \in AddYs, objectName \in ObjectNames \cup {""} :
       onAddInstanceAt(x, y, objectName) =>
         /\ Len(initialInstances') = Len(initialInstances) + 1
         /\ SubSeq(initialInstances', 1, Len(initialInstances)) = initialInstances
         /\ Last(initialInstances').objectName =
              (IF objectName # "" THEN objectName ELSE selectedObjectName)
         /\ Last(initialInstances').objectName \in ObjectNames
         /\ Last(initialInstances').x = x
         /\ Last(initialInstances').y = y
         /\ Last(initialInstances').id \notin Ids(initialInstances)
         /\ selectedObjectName' = Null
         /\ CommittedOnce(history, history', Snapshot(initialInstances'))]_vars

\* C14 witness: an add has just been handled for the object selected to
\* place; the container holds the instances it had and the new one.
C14_Witness ==
  /\ ops # <<>> /\ Last(ops) = "add"
  /\ Len(initialInstances) = Len(saved) + 1
  /\ Len(saved) >= 1
  /\ Last(initialInstances).x \in AddXs
  /\ selectedObjectName = Null

\* Operations that change the history or the selection.
ToolbarStep ==
  \/ onAddInstance
  \/ onInstancesMoved
  \/ deleteSelection
  \/ onCloseLayerRemoveDialog
  \/ onSelectInstances
  \/ undo
  \/ redo

\* C15: after every operation that changes the history or the selection, the
\* toolbar given to the view has canUndo = (past is not empty) and canRedo =
\* (future is not empty) for the history the operation left.
C15_ToolbarCurrent ==
  [][ToolbarStep => toolbar' = updateToolbar(history')]_vars

\* C16: when the session is given another instances container, layout or
\* project, the history becomes a new one: no past, no future, present the
\* snapshot of the container the session is now on.
C16_HistoryResetOnSwitch ==
  [][\A changed \in SUBSET ComparedProps, c \in InitialContents :
       (changed # {} /\ componentWillReceivePropsWith(changed, c)) =>
         history' = getHistoryInitialState(initialInstances')]_vars

\* C17: the selection is empty when the session is created, is empty after
\* props are received in which the layout, the instances container or the
\* project differs, and is left as it is when none of them differs.
C17_SelectionOnReceiveProps ==
  /\ instancesSelection = <<>>
  /\ [][\A changed \in SUBSET ComparedProps, c \in InitialContents :
          componentWillReceivePropsWith(changed, c) =>
            instancesSelection' =
              (IF changed # {} THEN <<>> ELSE instancesSelection)]_vars

\* C17 witness: props in which nothing differs have just been received while
\* instances are selected.
C17_Witness ==
  /\ ops = <<"receiveProps">>
  /\ instancesSelection # <<>>

\* The history the previous operation produced: the one it left pending, or
\* state.history when nothing is pending.
ProducedHistory ==
  IF pendingState = <<>> THEN history ELSE Last(pendingState).history

\* C18: every edit that saves to history builds on the history the previous
\* operation produced, even while that one is still pending: the history it
\* gives to setState is the produced history with one commit more, so that
\* no commit is overwritten or lost.
C18_NoLostCommit ==
  [][(onAddInstanceBatched \/ onInstancesMovedBatched \/ deleteSelectionBatched)
       => CommittedOnce(ProducedHistory, Last(pendingState').history,
                        Snapshot(initialInstances'))]_vars

\* C19: the handlers of the view settings and of the panels and dialogs leave
\* the history, the selection and the container as they are; undo, redo and
\* every operation that edits the container leave uiSettings as it is.
C19_UiSettingsNotHistorized ==
  [][ /\ ViewStep =>
           UNCHANGED <<history, instancesSelection, initialInstances>>
      /\ (undo \/ redo \/ EditStep) => UNCHANGED uiSettings ]_vars

\* C19 witness: an undo has just restored an entry while the grid is shown
\* and the window mask has been toggled.
C19_Witness ==
  /\ ops # <<>> /\ Last(ops) = "undo"
  /\ uiSettings.grid
  /\ uiSettings.windowMask
  /\ history.future # <<>>

\* C20: an undo with an empty past and a redo with an empty future leave the
\* history and the container as they are, whatever the toolbar shows.
C20_ExhaustionNoOp ==
  [][((undo /\ ~canUndo(history)) \/ (redo /\ ~canRedo(history)))
       => UNCHANGED <<history, initialInstances>>]_vars

\* C20 witness: an undo has just been handled with an empty past, the toolbar
\* showing that nothing can be undone, right after an edit of the container
\* that history does not hold.
C20_Witness ==
  /\ Len(ops) = 2 /\ ops[2] = "undoNothing"
  /\ ~toolbar.canUndo
  /\ history.past = <<>>
  /\ history.present # Snapshot(initialInstances)

\* C21 as stated: a reported move makes history.past one entry longer, makes
\* present the snapshot of the container with the move, empties future and
\* leaves the selection as it is.
C21_MovePastGrowsByOne ==
  [][onInstancesMoved =>
       /\ Len(history'.past) = Len(history.past) + 1
       /\ history'.present = Snapshot(initialInstances')
       /\ history'.future = <<>>
       /\ instancesSelection' = instancesSelection]_vars

\* C21 amended: a reported move commits history exactly once: the previous
\* present becomes the newest entry of past, which is one entry longer unless
\* it is at its cap (then its oldest entry is dropped); present is the
\* snapshot of the container with the move; future is empty; the selection
\* is left as it is.
C21_MoveCommitsOnce ==
  [][onInstancesMoved =>
       /\ CommittedOnce(history, history', Snapshot(initialInstances'))
       /\ instancesSelection' = instancesSelection]_vars

\* C21 witness: a move has just been committed with instances selected, and
\* past is at its cap.
C21_Witness ==
  /\ ops # <<>> /\ Last(ops) = "move"
  /\ Len(history.past) = MaxPast
  /\ history.present = Snapshot(initialInstances)
  /\ history.present # saved
  /\ instancesSelection # <<>>

\* `s` without the repeats: every element once, where it comes first.
Deduplicated(s) ==
  SelectSeq([k \in DOMAIN s |-> [at |-> k, ref |-> s[k]]],
            LAMBDA e : \A j \in 1..(e.at - 1) : s[j] # e.ref)

\* C22: onSelectInstances makes the selection exactly the instances it is
\* given, each once and in the given order, whatever was selected before, and
\* leaves the container and the history as they are.
C22_ReplaceSelection ==
  [][\A instances \in SelectableSeqs :
       onSelectInstancesOf(instances) =>
         /\ Len(instancesSelection') = Len(Deduplicated(instances))
         /\ \A k \in DOMAIN instancesSelection' :
              instancesSelection'[k] = Deduplicated(instances)[k].ref
         /\ UNCHANGED <<initialInstances, history>>]_vars

\* C22 witness: two instances have just been selected from the list, the
\* second of the container first.
C22_Witness ==
  /\ ops = <<"select">>
  /\ Len(initialInstances) = 2
  /\ instancesSelection = <<initialInstances[2].id, initialInstances[1].id>>
  /\ history.past # <<>>

\* C23: closing the dialog of a layer removal calls done exactly once, with
\* doRemove, once the dialog is marked closed and the container has its final
\* content.  Closed with doRemove false, the container, the selection and the
\* history are left as they are; with doRemove true and no target layer the
\* instances of the removed layer are deleted, with a target layer they are
\* moved to it; the other instances are left as they are.
C23_RemoveLayerProtocol ==
  [][ /\ onCloseLayerRemoveDialogCancel =>
           /\ UNCHANGED <<initialInstances, instancesSelection, history>>
           /\ ~layerRemoveDialogOpen'
           /\ doneCalled' =
                doneCalled \o <<[doRemove |-> FALSE,
                                 layerRemoveDialogOpen |-> FALSE,
                                 instances |-> Snapshot(initialInstances')]>>
      /\ \A newLayer \in {Null} \cup Layers :
           onCloseLayerRemoveDialogTo(newLayer) =>
             /\ ~layerRemoveDialogOpen'
             /\ doneCalled' =
                  doneCalled \o <<[doRemove |-> TRUE,
                                   layerRemoveDialogOpen |-> FALSE,
                                   instances |-> Snapshot(initialInstances')]>>
             /\ newLayer = Null =>
                  initialInstances' =
                    SelectSeq(initialInstances,
                              LAMBDA i : i.layer # layerRemoved)
             /\ newLayer # Null =>
                  /\ Len(initialInstances') = Len(initialInstances)
                  /\ \A k \in DOMAIN initialInstances :
                       initialInstances'[k] =
                         [initialInstances[k] EXCEPT !.layer =
                            IF @ = layerRemoved THEN newLayer ELSE @] ]_vars

\* C23 witness: a dialog has just been closed with doRemove true and a target
\* layer; instances have moved to it, and done has been called once.
C23_Witness ==
  /\ ops # <<>> /\ Last(ops) = "removeLayerMove"
  /\ ~layerRemoveDialogOpen
  /\ Len(doneCalled) = 1
  /\ doneCalled[1].doRemove
  /\ Snapshot(initialInstances) # saved
  /\ \E k \in DOMAIN initialInstances : initialInstances[k].layer = BaseLayer

====
